---- MODULE Spec2Model ----
(***************************************************************************)
(* Channel / video synchronisation and deduplication of youtube-watcher:   *)
(* the Channel and Video tables with their uniqueness constraints, the     *)
(* request handlers that reconcile fetched candidate lists against them,   *)
(* the status transitions of a video and the bulk import handlers.         *)
(*                                                                         *)
(* A handler runs in its own database session (database.py get_db); its    *)
(* inserts and updates are staged in the session and reach the tables at   *)
(* flush/commit, where the unique constraints are enforced.  The session   *)
(* factory is built with autoflush=False, so a SELECT issued by a handler   *)
(* sees the committed rows and the rows the handler flushed explicitly,    *)
(* never the rows it has merely added.                                     *)
(***************************************************************************)
EXTENDS Integers, Sequences, FiniteSets, TLC

\* ------------------------------------------------------------------ bounds
VideoIds == {"v1", "v2", "v3"}
ChannelIds == {"UC1", "UC2"}
MaxListLen == 2
MaxFleetLen == 1
MaxBatch == 1
MaxReconLen == 3
MaxFleetBatch == 2
MaxClock == 3
Sessions == {1, 2}

NULL == "NULL"
NoChannel == ""
\* NULL of a DateTime column (timestamps are clock readings >= 0)
NoTime == 0 - 1
\* NULL of the videos.channel_id foreign key (primary keys are >= 1)
NoRef == 0

\* Candidate lists a feed fetch can return (newest first, as the feed gives
\* them; the parser keeps duplicates of the feed).
RECURSIVE SeqsUpTo(_, _)
SeqsUpTo(S, n) ==
    IF n = 0 THEN {<<>>}
    ELSE LET shorter == SeqsUpTo(S, n - 1)
         IN shorter \cup {Append(s, x) : s \in {t \in shorter : Len(t) = n - 1}, x \in S}

Lists == SeqsUpTo(VideoIds, MaxListLen)

\* ------------------------------------------------------------------- state
VARIABLES
    channels,   \* the channels table: a set of Channel rows
    videos,     \* the videos table: a set of Video rows
    nextId,     \* source of fresh primary keys (uuid4)
    now,        \* the clock read by datetime.now()
    res,        \* what the last handler did and returned
    feed,       \* what the upstream feeds answer while nothing is published
    fleet,      \* a batch handler followed task by task through its fetch phase
    sess,       \* handlers running in concurrent sessions, check and commit apart
    call        \* one outbound fetch followed attempt by attempt

vars == <<channels, videos, nextId, now, res, feed, fleet, sess, call>>

\* A Channel row (models/channel.py).
ChannelRow(id, c, wm, checked) ==
    [id |-> id, youtube_channel_id |-> c, name |-> c,
     last_video_id |-> wm, last_checked |-> checked]

\* A Video row (models/video.py); status defaults to inbox, the timestamps
\* and the denormalised channel columns default to NULL.
VideoRow(id, v, chanRef, chanYt, chanName, status, savedAt, discardedAt) ==
    [id |-> id, youtube_video_id |-> v, channel_id |-> chanRef,
     channel_youtube_id |-> chanYt, channel_name |-> chanName,
     status |-> status, saved_at |-> savedAt, discarded_at |-> discardedAt]

StoredIds(rows) == {r.youtube_video_id : r \in rows}

RowsOf(rows, v) == {r \in rows : r.youtube_video_id = v}

\* A lookup by external channel id that finds no row.
ChannelsOfNone(rows, c) == {}

\* select(Channel).where(Channel.youtube_channel_id == c)
ChannelsOf(rows, c) == {r \in rows : r.youtube_channel_id = c}

\* scalar_one_or_none() on a lookup by a unique column.
OneOf(S) == CHOOSE r \in S : TRUE

\* ------------------------------------------------------- the last handler
\* op/outcome/err: the handler and how it ended; ch, list, ferr: its inputs;
\* oldWm, oldStored: the watermark and the stored ids it found; looked: the
\* ids it looked up; staged, added: the ids it added to its session and the
\* count it reports; oldTracked, oldRows: the tracked channel ids and the
\* Video rows an import or a from-url found; fetched: the fetch results of an import;
\* created: the ids of the rows its commit inserted; wmChanged: the channels whose
\* watermark its commit changed; repeat: the previous handler was the same
\* refresh with the same fetch outcome.
NoRes ==
    [op |-> "none", outcome |-> "none", err |-> "",
     ch |-> NULL, list |-> <<>>, ferr |-> NULL, results |-> <<>>,
     oldWm |-> NULL, oldStored |-> {}, oldTracked |-> {}, oldRows |-> {},
     fetched |-> <<>>,
     staged |-> <<>>, looked |-> <<>>, added |-> 0, newWm |-> NULL,
     created |-> {}, wmChanged |-> {}, repeat |-> FALSE,
     refreshed |-> 0, found |-> 0, errors |-> <<>>, fetchedOk |-> {},
     fetchFailed |-> {}, total |-> 0, imported |-> 0, skipped |-> 0]

Returned(r) == [r EXCEPT !.outcome = "returned"]

Raised(r, kind) == [r EXCEPT !.outcome = "raised", !.err = kind]

\* ------------------------------------------------------ unique constraint
\* The videos table with unique=True left off youtube_video_id.
VideoKeyConflictOff(table, staged) == FALSE

\* The UNIQUE constraint on videos.youtube_video_id, checked when the rows a
\* session added are flushed: an INSERT whose key is already in the table,
\* or is inserted twice by the same flush, fails with IntegrityError.

VideoKeyConflict(table, staged) ==
    \/ \E i \in 1..Len(staged) : staged[i].youtube_video_id \in StoredIds(table)
    \/ \E i, j \in 1..Len(staged) :
          i # j /\ staged[i].youtube_video_id = staged[j].youtube_video_id

SeqToSet(s) == {s[i] : i \in 1..Len(s)}

\* ---------------------------------------------------------- reconciliation
\* _process_new_videos: the walk over the candidate list.  visible is the
\* set of video ids a SELECT of this session finds.  The result carries the
\* ids of the videos added to the session, in order, new_last_video_id, and
\* the ids the walk looked up in storage.  WalkCandidatesNoStop is the walk
\* with `continue` where the loop has `break`; WalkCandidatesLastWins is the
\* walk whose new_last_video_id follows every new video;
\* WalkCandidatesStopsOnStored is the walk with `break` where the loop has
\* `continue`.
RECURSIVE WalkCandidatesNoStop(_, _, _, _, _)
WalkCandidatesNoStop(list, i, wm, visible, acc) ==
    IF i > Len(list) THEN acc
    ELSE IF list[i] = wm THEN WalkCandidatesNoStop(list, i + 1, wm, visible, acc)
    ELSE IF list[i] \in visible
    THEN WalkCandidatesNoStop(list, i + 1, wm, visible,
            [acc EXCEPT !.looked = Append(@, list[i])])
    ELSE LET n == acc.added + 1
             nl == IF acc.new_last = NULL \/ n = 1 THEN list[i] ELSE acc.new_last
         IN WalkCandidatesNoStop(list, i + 1, wm, visible,
                [staged |-> Append(acc.staged, list[i]), new_last |-> nl, added |-> n,
                 looked |-> Append(acc.looked, list[i])])

RECURSIVE WalkCandidatesLastWins(_, _, _, _, _)
WalkCandidatesLastWins(list, i, wm, visible, acc) ==
    IF i > Len(list) THEN acc
    ELSE IF list[i] = wm THEN acc
    ELSE IF list[i] \in visible
    THEN WalkCandidatesLastWins(list, i + 1, wm, visible,
            [acc EXCEPT !.looked = Append(@, list[i])])
    ELSE WalkCandidatesLastWins(list, i + 1, wm, visible,
            [staged |-> Append(acc.staged, list[i]), new_last |-> list[i],
             added |-> acc.added + 1, looked |-> Append(acc.looked, list[i])])

RECURSIVE WalkCandidatesStopsOnStored(_, _, _, _, _)
WalkCandidatesStopsOnStored(list, i, wm, visible, acc) ==
    IF i > Len(list) THEN acc
    ELSE IF list[i] = wm THEN acc
    ELSE IF list[i] \in visible THEN [acc EXCEPT !.looked = Append(@, list[i])]
    ELSE LET n == acc.added + 1
             nl == IF acc.new_last = NULL \/ n = 1 THEN list[i] ELSE acc.new_last
         IN WalkCandidatesStopsOnStored(list, i + 1, wm, visible,
                [staged |-> Append(acc.staged, list[i]), new_last |-> nl, added |-> n,
                 looked |-> Append(acc.looked, list[i])])

RECURSIVE WalkCandidates(_, _, _, _, _)
WalkCandidates(list, i, wm, visible, acc) ==
    IF i > Len(list) THEN acc
    ELSE IF list[i] = wm THEN acc
    ELSE IF list[i] \in visible
    THEN WalkCandidates(list, i + 1, wm, visible,
            [acc EXCEPT !.looked = Append(@, list[i])])
    ELSE LET n == acc.added + 1
             nl == IF acc.new_last = NULL \/ n = 1 THEN list[i] ELSE acc.new_last
         IN WalkCandidates(list, i + 1, wm, visible,
                [staged |-> Append(acc.staged, list[i]), new_last |-> nl, added |-> n,
                 looked |-> Append(acc.looked, list[i])])

ProcessNewVideos(chan, list, visible) ==
    WalkCandidates(list, 1, chan.last_video_id, visible,
        [staged |-> <<>>, new_last |-> chan.last_video_id, added |-> 0, looked |-> <<>>])

\* A walk that puts the stored videos it meets back into the inbox.
KeptReset(table, looked) ==
    {IF r.youtube_video_id \in SeqToSet(looked)
     THEN [r EXCEPT !.status = "inbox", !.saved_at = NoTime, !.discarded_at = NoTime]
     ELSE r : r \in table}

\* The stored rows after the walk: a candidate whose lookup finds a row
\* executes `continue`, and nothing is assigned to the row.
Kept(table, looked) == table

\* The Video rows _process_new_videos adds for the walked ids: status inbox,
\* owned by the channel; the denormalised channel columns are not passed.
InboxRows(ids, chanRef, firstId) ==
    [i \in 1..Len(ids) |->
        VideoRow(firstId + i - 1, ids[i], chanRef, NULL, NULL, "inbox", NoTime, NoTime)]

\* The channel row after a walk that assigns last_video_id whether or not
\* it found a new video.
ReconciledUnguarded(chan, walk, t) ==
    [chan EXCEPT !.last_checked = t,
                 !.last_video_id = IF walk.added > 0 THEN walk.new_last ELSE NULL]

\* The channel row after the walk: last_checked is set, last_video_id only
\* when new_last_video_id is truthy.
Reconciled(chan, walk, t) ==
    [chan EXCEPT !.last_checked = t,
                 !.last_video_id = IF walk.new_last # NULL THEN walk.new_last ELSE @]

\* Outcome of fetch_videos: a list, or an exception with its str().
FetchErrors == {"RetryError"}
FetchOutcomes(lists, errors) ==
    {[error |-> NULL, videos |-> l] : l \in lists}
        \cup {[error |-> e, videos |-> <<>>] : e \in errors}

FetchResults == FetchOutcomes(Lists, FetchErrors)
EmptyFetch == [error |-> NULL, videos |-> <<>>]

\* A handler that takes every fetch outcome for a list.
FetchFailedNever(f) == FALSE

\* The fetch raised: refresh_channel's except clause runs, and
\* _fetch_channel_videos returns (channel, None, str(e)).
FetchFailed(f) == f.error # NULL

\* ---------------------------------------------------------------- handlers
\* The channels whose last_video_id differs between two states of the table.
WatermarkChanges(before, after) ==
    {r.youtube_channel_id : r \in {x \in before :
        \E y \in after : y.id = x.id /\ y.last_video_id # x.last_video_id}}

\* POST /channels/{id}/refresh
RefreshChannel(c, f) ==
    /\ now < MaxClock
    /\ ChannelsOf(channels, c) = {} => f = EmptyFetch
    /\ now' = now + 1
    /\ LET base == [NoRes EXCEPT !.op = "refresh", !.ch = c, !.list = f.videos,
                                 !.ferr = f.error,
                                 !.repeat = /\ res.op = "refresh"
                                            /\ res.ch = c
                                            /\ res.list = f.videos
                                            /\ res.ferr = f.error]
       IN IF ChannelsOf(channels, c) = {}
          THEN /\ res' = Raised(base, "not_found")
               /\ UNCHANGED <<channels, videos, nextId>>
          ELSE IF FetchFailed(f)
          THEN /\ res' = Raised(base, "external_service")
               /\ UNCHANGED <<channels, videos, nextId>>
          ELSE LET chan == OneOf(ChannelsOf(channels, c))
                   walk == ProcessNewVideos(chan, f.videos, StoredIds(videos))
                   rows == InboxRows(walk.staged, chan.id, nextId)
                   after == (channels \ {chan}) \cup {Reconciled(chan, walk, now)}
                   seen == [base EXCEPT !.oldWm = chan.last_video_id,
                                        !.oldStored = StoredIds(videos),
                                        !.staged = walk.staged,
                                        !.looked = walk.looked,
                                        !.added = walk.added,
                                        !.newWm = walk.new_last]
               IN IF VideoKeyConflict(videos, rows)
                  THEN /\ res' = Raised(seen, "integrity")
                       /\ UNCHANGED <<channels, videos, nextId>>
                  ELSE /\ videos' = Kept(videos, walk.looked) \cup SeqToSet(rows)
                       /\ channels' = after
                       /\ nextId' = nextId + Len(rows)
                       /\ res' = Returned([seen EXCEPT
                              !.created = {r.id : r \in SeqToSet(rows)},
                              !.wmChanged = WatermarkChanges(channels, after)])

\* The rows of a table in primary-key order (the order rows were inserted).
RECURSIVE ById(_)
ById(rows) ==
    IF rows = {} THEN <<>>
    ELSE LET first == CHOOSE r \in rows : \A o \in rows : r.id <= o.id
         IN <<first>> \o ById(rows \ {first})

\* _fetch_channel_videos returns (channel, videos_info, None) or
\* (channel, None, str(e)); str(e) can be the empty string.
FleetErrors == {"RetryError", ""}

\* The loop of refresh_all_channels over fetch_results: a truthy error is
\* recorded; otherwise _process_new_videos runs, and iterating a videos_info
\* of None raises inside the try, which records the error as well.
RECURSIVE FleetWalk(_, _, _, _, _)
FleetWalk(chs, i, results, visible, acc) ==
    IF i > Len(chs) THEN acc
    ELSE LET chan == chs[i]
             c == chan.youtube_channel_id
             f == results[c]
             walk == ProcessNewVideos(chan, f.videos, visible)
             rows == InboxRows(walk.staged, chan.id, acc.nid)
             after == IF FetchFailed(f)
                      THEN [acc EXCEPT !.errors = Append(@, c)]
                      ELSE [acc EXCEPT !.rows = @ \o rows,
                                       !.looked = @ \o walk.looked,
                                       !.chans = (@ \ {chan})
                                                    \cup {Reconciled(chan, walk, acc.t)},
                                       !.refreshed = @ + 1,
                                       !.found = @ + walk.added,
                                       !.nid = @ + Len(rows)]
             \* the loop's variables hold their values when the next
             \* iteration starts
             rest == [a \in {after} |-> FleetWalk(chs, i + 1, results, visible, a)]
         IN rest[after]

\* POST /channels/refresh-all, given the gathered fetch results.
RefreshAll(results) ==
    /\ now < MaxClock
    /\ \A c \in ChannelIds : ChannelsOf(channels, c) = {} => results[c] = EmptyFetch
    /\ now' = now + 1
    /\ LET tracked == {r.youtube_channel_id : r \in channels}
           base == [NoRes EXCEPT !.op = "refresh_all", !.results = results,
                        !.oldStored = StoredIds(videos),
                        !.fetchedOk = {c \in tracked : results[c].error = NULL},
                        !.fetchFailed = {c \in tracked : results[c].error # NULL},
                        !.repeat = res.op = "refresh_all" /\ res.results = results]
           done == FleetWalk(ById(channels), 1, results, StoredIds(videos),
                       [rows |-> <<>>, looked |-> <<>>, chans |-> channels,
                        refreshed |-> 0, found |-> 0,
                        errors |-> <<>>, nid |-> nextId, t |-> now])
           seen == [base EXCEPT !.staged = [i \in 1..Len(done.rows) |->
                                               done.rows[i].youtube_video_id],
                                !.looked = done.looked,
                                !.added = done.found]
       IN IF VideoKeyConflict(videos, done.rows)
          THEN /\ res' = Raised(seen, "integrity")
               /\ UNCHANGED <<channels, videos, nextId>>
          ELSE /\ videos' = Kept(videos, done.looked) \cup SeqToSet(done.rows)
               /\ channels' = done.chans
               /\ nextId' = done.nid
               /\ res' = Returned([seen EXCEPT
                      !.refreshed = done.refreshed, !.found = done.found,
                      !.errors = done.errors,
                      !.created = {r.id : r \in SeqToSet(done.rows)},
                      !.wmChanged = WatermarkChanges(channels, done.chans)])

\* Inputs of POST /channels: the URL resolves to a channel id or is not a
\* channel URL; fetch_channel_info and fetch_videos succeed or raise.
BadUrl == "bad-url"
ChannelUrls == ChannelIds \cup {BadUrl}
InfoResults == {"ok", "error"}

\* The Video rows create_channel adds: one per fetched item, no lookup.
\* POST /channels
CreateChannel(u, info, f) ==
    /\ now < MaxClock
    /\ u = BadUrl \/ ChannelsOf(channels, u) # {} => info = "ok" /\ f = EmptyFetch
    /\ info = "error" => f = EmptyFetch
    /\ now' = now + 1
    /\ LET base == [NoRes EXCEPT !.op = "create_channel", !.ch = u, !.list = f.videos,
                                 !.oldStored = StoredIds(videos)]
       IN IF u = BadUrl
          THEN /\ res' = Raised(base, "validation")
               /\ UNCHANGED <<channels, videos, nextId>>
          ELSE IF ChannelsOf(channels, u) # {}
          THEN /\ res' = Raised(base, "already_exists")
               /\ UNCHANGED <<channels, videos, nextId>>
          ELSE IF info = "error" \/ f.error # NULL
          THEN /\ res' = Raised(base, "external_service")
               /\ UNCHANGED <<channels, videos, nextId>>
          ELSE LET wm == IF Len(f.videos) > 0 THEN f.videos[1] ELSE NULL
                   chan == ChannelRow(nextId, u, wm, now)
                   rows == InboxRows(f.videos, chan.id, nextId + 1)
                   seen == [base EXCEPT !.staged = f.videos, !.added = Len(f.videos),
                                        !.newWm = wm]
               IN IF VideoKeyConflict(videos, rows)
                  THEN /\ res' = Raised(seen, "integrity")
                       /\ UNCHANGED <<channels, videos, nextId>>
                  ELSE /\ channels' = channels \cup {chan}
                       /\ videos' = videos \cup SeqToSet(rows)
                       /\ nextId' = nextId + 1 + Len(rows)
                       /\ res' = Returned(seen)

\* ON DELETE SET NULL of videos.channel_id.
Orphaned(rows, chanRef) ==
    {IF r.channel_id = chanRef THEN [r EXCEPT !.channel_id = NoRef] ELSE r : r \in rows}

\* DELETE /channels/{id}: a Core DELETE of the channel row.  Whether the
\* database then applies ON DELETE SET NULL depends on the deployment: the
\* default sqlite database enforces no foreign key (no PRAGMA foreign_keys
\* is issued), another database_url does.
DeleteChannel(c, enforced) ==
    /\ now < MaxClock
    /\ now' = now + 1
    /\ LET base == [NoRes EXCEPT !.op = "delete_channel", !.ch = c]
       IN IF ChannelsOf(channels, c) = {}
          THEN /\ res' = Raised(base, "not_found")
               /\ UNCHANGED <<channels, videos, nextId>>
          ELSE LET chan == OneOf(ChannelsOf(channels, c))
               IN /\ channels' = channels \ {chan}
                  /\ videos' = IF enforced THEN Orphaned(videos, chan.id) ELSE videos
                  /\ res' = Returned(base)
                  /\ UNCHANGED nextId

\* ------------------------------------------------------ status transitions
\* A save that leaves discarded_at as it finds it.
SavedKeepsDiscarded(r, t) == [r EXCEPT !.status = "saved", !.saved_at = t]

\* save_video / bulk_save_videos: the assignments to one row.
Saved(r, t) == [r EXCEPT !.status = "saved", !.saved_at = t, !.discarded_at = NoTime]

\* A discard that moves the row without stamping it.
DiscardedUnstamped(r, t) == [r EXCEPT !.status = "discarded", !.saved_at = NoTime]

\* discard_video / bulk_discard_videos: the assignments to one row.
Discarded(r, t) == [r EXCEPT !.status = "discarded", !.discarded_at = t, !.saved_at = NoTime]

\* Primary keys a request can name: those of the stored videos, and one
\* that names no row.
RowIds == {r.id : r \in videos} \cup {nextId}

\* POST /videos/{id}/save
SaveVideo(id) ==
    /\ now < MaxClock
    /\ now' = now + 1
    /\ UNCHANGED <<channels, nextId>>
    /\ LET base == [NoRes EXCEPT !.op = "save"]
           hit == {r \in videos : r.id = id}
       IN IF hit = {}
          THEN /\ res' = Raised(base, "not_found")
               /\ UNCHANGED videos
          ELSE /\ videos' = (videos \ hit) \cup {Saved(r, now) : r \in hit}
               /\ res' = Returned(base)

\* POST /videos/{id}/discard
DiscardVideo(id) ==
    /\ now < MaxClock
    /\ now' = now + 1
    /\ UNCHANGED <<channels, nextId>>
    /\ LET base == [NoRes EXCEPT !.op = "discard"]
           hit == {r \in videos : r.id = id}
       IN IF hit = {}
          THEN /\ res' = Raised(base, "not_found")
               /\ UNCHANGED videos
          ELSE /\ videos' = (videos \ hit) \cup {Discarded(r, now) : r \in hit}
               /\ res' = Returned(base)

\* POST /videos/bulk-save
BulkSaveVideos(ids) ==
    /\ now < MaxClock
    /\ now' = now + 1
    /\ UNCHANGED <<channels, nextId>>
    /\ LET hit == {r \in videos : r.id \in ids}
       IN /\ videos' = (videos \ hit) \cup {Saved(r, now) : r \in hit}
          /\ res' = Returned([NoRes EXCEPT !.op = "bulk_save"])

\* POST /videos/bulk-discard
BulkDiscardVideos(ids) ==
    /\ now < MaxClock
    /\ now' = now + 1
    /\ UNCHANGED <<channels, nextId>>
    /\ LET hit == {r \in videos : r.id \in ids}
       IN /\ videos' = (videos \ hit) \cup {Discarded(r, now) : r \in hit}
          /\ res' = Returned([NoRes EXCEPT !.op = "bulk_discard"])

\* DELETE /videos/{id}
DeleteVideo(id) ==
    /\ now < MaxClock
    /\ now' = now + 1
    /\ UNCHANGED <<channels, nextId>>
    /\ LET base == [NoRes EXCEPT !.op = "delete_video"]
           hit == {r \in videos : r.id = id}
       IN IF hit = {}
          THEN /\ res' = Raised(base, "not_found")
               /\ UNCHANGED videos
          ELSE /\ videos' = videos \ hit
               /\ res' = Returned(base)

\* DELETE /videos/discarded/purge-all
PurgeAllDiscardedVideos ==
    /\ now < MaxClock
    /\ now' = now + 1
    /\ UNCHANGED <<channels, nextId>>
    /\ videos' = {r \in videos : r.status # "discarded"}
    /\ res' = Returned([NoRes EXCEPT !.op = "purge"])

\* ------------------------------------------------------------ single add
\* The upstream owner of a video (info['channel_id'] of the extractor);
\* the empty string when the extractor reports none.
Owner(v) == IF v = "v1" THEN "UC1" ELSE IF v = "v2" THEN "UC1" ELSE NoChannel

VideoUrls == VideoIds \cup {BadUrl}

\* Outcome of fetch_video_by_id: the detail record, or an exception.
DetailResults == {"ok", "error"}

\* channel.id of the tracked channel with this external id, else None.
TrackedRef(chans, c) ==
    IF c # NoChannel /\ ChannelsOf(chans, c) # {} THEN OneOf(ChannelsOf(chans, c)).id ELSE NoRef

\* POST /videos/from-url
AddVideoFromUrl(u, d) ==
    /\ now < MaxClock
    /\ u = BadUrl \/ RowsOf(videos, u) # {} => d = "ok"
    /\ now' = now + 1
    /\ UNCHANGED channels
    /\ LET base == [NoRes EXCEPT !.op = "from_url", !.list = <<u>>,
                                 !.oldStored = StoredIds(videos),
                                 !.oldRows = videos]
       IN IF u = BadUrl
          THEN /\ res' = Raised(base, "validation")
               /\ UNCHANGED <<videos, nextId>>
          ELSE IF RowsOf(videos, u) # {}
          THEN LET row == OneOf(RowsOf(videos, u))
               IN /\ videos' = (videos \ {row}) \cup {Saved(row, now)}
                  /\ res' = Returned(base)
                  /\ UNCHANGED nextId
          ELSE IF d = "error"
          THEN /\ res' = Raised(base, "external_service")
               /\ UNCHANGED <<videos, nextId>>
          ELSE LET row == VideoRow(nextId, u, TrackedRef(channels, Owner(u)),
                                   Owner(u), Owner(u), "saved", now, NoTime)
               IN IF VideoKeyConflict(videos, <<row>>)
                  THEN /\ res' = Raised(base, "integrity")
                       /\ UNCHANGED <<videos, nextId>>
                  ELSE /\ videos' = videos \cup {row}
                       /\ nextId' = nextId + 1
                       /\ res' = Returned([base EXCEPT !.staged = <<u>>, !.added = 1])

\* ------------------------------------------------------------- bulk import
\* One reference of a batch with what the network will answer for it: the
\* URL (a video URL, a string that is no video URL, or a blank string), the
\* outcome of fetch_video_by_id and the outcome of fetch_channel_info.
ImportItems ==
    {[url |-> u, detail |-> "ok", info |-> "ok"] : u \in {"", BadUrl}}
        \cup {[url |-> v, detail |-> "error", info |-> "ok"] : v \in VideoIds}
        \cup {[url |-> v, detail |-> "ok", info |-> "ok"] : v \in VideoIds}
        \cup {[url |-> v, detail |-> "ok", info |-> "error"] :
                 v \in {x \in VideoIds : Owner(x) # NoChannel}}

UrlBatches == SeqsUpTo(ImportItems, MaxBatch)

PlaylistBatches == SeqsUpTo({it \in ImportItems : it.url \in VideoIds}, MaxBatch)

\* fetch_url_data / fetch_video_data: the FetchResult of one reference.
FetchUrlData(it) ==
    IF it.url = ""
    THEN [url |-> it.url, skip |-> TRUE, error |-> NULL, video_id |-> NULL,
          channel_info |-> FALSE]
    ELSE IF it.url = BadUrl
    THEN [url |-> it.url, skip |-> FALSE, error |-> "Error fetching", video_id |-> NULL,
          channel_info |-> FALSE]
    ELSE IF it.detail = "error"
    THEN [url |-> it.url, skip |-> FALSE, error |-> "Could not fetch video",
          video_id |-> it.url, channel_info |-> FALSE]
    ELSE [url |-> it.url, skip |-> FALSE, error |-> NULL, video_id |-> it.url,
          channel_info |-> (Owner(it.url) # NoChannel /\ it.info = "ok")]

\* An import that leaves an existing row as it finds it.
ImportLeavesRow(r, t) == r

\* The assignments import_video_urls / import_playlist / import_videos make
\* to an existing row that is not saved.
ImportSaved(r, t) == [r EXCEPT !.status = "saved", !.saved_at = t]

\* A storage phase that asks neither the cache nor the table.
CreatesChannelAlways(owner, cached, found, info) == owner # NoChannel /\ info

\* The storage phase creates the owning channel when the video names one,
\* neither channel_cache nor the channels table has it, and its
\* channel_info was fetched.
CreatesChannel(owner, cached, found, info) ==
    owner # NoChannel /\ cached = {} /\ found = {} /\ info

\* The storage phase of import_video_urls and import_playlist: the loop
\* over fetch_results.  Every add is flushed, so acc.videos and acc.channels
\* are the tables as the next SELECT of the session sees them.
RECURSIVE StoragePhase(_, _, _, _)
StoragePhase(results, i, t, acc) ==
    IF i > Len(results) THEN acc
    ELSE LET r == results[i]
         IN IF r.skip THEN StoragePhase(results, i + 1, t, acc)
            ELSE IF r.error # NULL
            THEN StoragePhase(results, i + 1, t, [acc EXCEPT !.errors = Append(@, r.error)])
            ELSE IF RowsOf(acc.videos, r.video_id) # {}
            THEN LET row == OneOf(RowsOf(acc.videos, r.video_id))
                 IN IF row.status # "saved"
                    THEN StoragePhase(results, i + 1, t,
                            [acc EXCEPT !.videos = (@ \ {row}) \cup {ImportSaved(row, t)},
                                        !.imported = @ + 1])
                    ELSE StoragePhase(results, i + 1, t, [acc EXCEPT !.skipped = @ + 1])
            ELSE LET owner == Owner(r.video_id)
                     cached == {e \in acc.cache : e.c = owner}
                     found == ChannelsOf(acc.channels, owner)
                     create == CreatesChannel(owner, cached, found, r.channel_info)
                     chans == IF create
                              THEN acc.channels \cup {ChannelRow(acc.nid, owner, NULL, t)}
                              ELSE acc.channels
                     nid == IF create THEN acc.nid + 1 ELSE acc.nid
                     ref == IF owner = NoChannel THEN NoRef
                            ELSE IF cached # {} THEN OneOf(cached).id
                            ELSE TrackedRef(chans, owner)
                     cache == IF owner # NoChannel /\ cached = {} /\ ref # NoRef
                              THEN acc.cache \cup {[c |-> owner, id |-> ref]}
                              ELSE acc.cache
                     row == VideoRow(nid, r.video_id, ref, owner, owner, "saved", t, NoTime)
                 IN StoragePhase(results, i + 1, t,
                        [acc EXCEPT !.videos = @ \cup {row}, !.channels = chans,
                                    !.nid = nid + 1, !.cache = cache,
                                    !.imported = @ + 1])

ImportStart ==
    [videos |-> videos, channels |-> channels, nid |-> nextId, cache |-> {},
     imported |-> 0, skipped |-> 0, errors |-> <<>>]

\* POST /import-export/import/video-urls
ImportVideoUrls(batch) ==
    /\ now < MaxClock
    /\ now' = now + 1
    /\ LET results == [i \in 1..Len(batch) |-> FetchUrlData(batch[i])]
           done == StoragePhase(results, 1, now, ImportStart)
       IN /\ videos' = done.videos
          /\ channels' = done.channels
          /\ nextId' = done.nid
          /\ res' = Returned([NoRes EXCEPT !.op = "import_video_urls",
                 !.list = [i \in 1..Len(batch) |-> batch[i].url],
                 !.oldStored = StoredIds(videos),
                 !.oldTracked = {c.youtube_channel_id : c \in channels},
                 !.oldRows = videos, !.fetched = results,
                 !.total = Len(batch), !.imported = done.imported,
                 !.skipped = done.skipped, !.errors = done.errors,
                 !.created = {r.id : r \in done.videos} \ {r.id : r \in videos}])

\* Outcome of fetch_playlist_video_ids: the member ids, or ValueError (no
\* playlist info, no entries, no ids, or a DownloadError, which the function
\* converts).
PlaylistResults == {"ok", "value_error"}

\* A handler that lets the ValueError of the expansion through.
PlaylistFailureEscapes(base) == Raised(base, "internal")

\* import_playlist's except ValueError: a result with zero counts and
\* str(e) as its one error.
PlaylistFailure(base) == Returned([base EXCEPT !.errors = <<"playlist">>])

\* POST /import-export/import/playlist
ImportPlaylist(expand, batch) ==
    /\ now < MaxClock
    /\ expand = "ok" <=> Len(batch) > 0
    /\ now' = now + 1
    /\ LET base == [NoRes EXCEPT !.op = "import_playlist",
                        !.list = [i \in 1..Len(batch) |-> batch[i].url],
                        !.oldStored = StoredIds(videos),
                        !.oldTracked = {c.youtube_channel_id : c \in channels},
                        !.oldRows = videos]
       IN IF expand = "value_error"
          THEN /\ res' = PlaylistFailure(base)
               /\ UNCHANGED <<channels, videos, nextId>>
          ELSE LET results == [i \in 1..Len(batch) |-> FetchUrlData(batch[i])]
                   done == StoragePhase(results, 1, now, ImportStart)
               IN /\ videos' = done.videos
                  /\ channels' = done.channels
                  /\ nextId' = done.nid
                  /\ res' = Returned([base EXCEPT
                         !.fetched = results,
                         !.total = Len(batch), !.imported = done.imported,
                         !.skipped = done.skipped, !.errors = done.errors,
                         !.created = {r.id : r \in done.videos} \ {r.id : r \in videos}])

\* One entry of an export file with what fetch_channel_info will answer.
ExportItems ==
    {[v |-> v, info |-> "ok"] : v \in VideoIds}
        \cup {[v |-> v, info |-> "error"] : v \in {x \in VideoIds : Owner(x) # NoChannel}}

ExportBatches == SeqsUpTo(ExportItems, MaxBatch)

\* The loop of import_videos: lookup, channel find-or-create, insert, each
\* insert flushed.
RECURSIVE ImportVideosLoop(_, _, _, _)
ImportVideosLoop(batch, i, t, acc) ==
    IF i > Len(batch) THEN acc
    ELSE LET it == batch[i]
         IN IF RowsOf(acc.videos, it.v) # {}
            THEN LET row == OneOf(RowsOf(acc.videos, it.v))
                 IN IF row.status # "saved"
                    THEN ImportVideosLoop(batch, i + 1, t,
                            [acc EXCEPT !.videos = (@ \ {row}) \cup {ImportSaved(row, t)},
                                        !.imported = @ + 1])
                    ELSE ImportVideosLoop(batch, i + 1, t, [acc EXCEPT !.skipped = @ + 1])
            ELSE LET owner == Owner(it.v)
                     create == owner # NoChannel /\ ChannelsOf(acc.channels, owner) = {}
                                   /\ it.info = "ok"
                     chans == IF create
                              THEN acc.channels \cup {ChannelRow(acc.nid, owner, NULL, t)}
                              ELSE acc.channels
                     nid == IF create THEN acc.nid + 1 ELSE acc.nid
                     chanYt == IF owner = NoChannel THEN NULL ELSE owner
                     row == VideoRow(nid, it.v, TrackedRef(chans, owner), chanYt, chanYt,
                                     "saved", t, NoTime)
                 IN ImportVideosLoop(batch, i + 1, t,
                        [acc EXCEPT !.videos = @ \cup {row}, !.channels = chans,
                                    !.nid = nid + 1, !.imported = @ + 1])

\* POST /import-export/import/videos
ImportVideos(batch) ==
    /\ now < MaxClock
    /\ now' = now + 1
    /\ LET done == ImportVideosLoop(batch, 1, now, ImportStart)
       IN /\ videos' = done.videos
          /\ channels' = done.channels
          /\ nextId' = done.nid
          /\ res' = Returned([NoRes EXCEPT !.op = "import_videos",
                 !.list = [i \in 1..Len(batch) |-> batch[i].v],
                 !.oldStored = StoredIds(videos),
                 !.total = Len(batch), !.imported = done.imported,
                 !.skipped = done.skipped, !.errors = done.errors,
                 !.created = {r.id : r \in done.videos} \ {r.id : r \in videos}])

\* One channel of an export file with what fetch_channel_info will answer.
ChannelItems == {[c |-> c, info |-> i] : c \in ChannelIds, i \in {"ok", "error"}}

ChannelBatches == SeqsUpTo(ChannelItems, MaxBatch)

\* The loop of import_channels: existing channels are skipped, a failed
\* fetch is recorded, a new channel is inserted without a watermark.
RECURSIVE ImportChannelsLoop(_, _, _, _)
ImportChannelsLoop(batch, i, t, acc) ==
    IF i > Len(batch) THEN acc
    ELSE LET it == batch[i]
         IN IF ChannelsOf(acc.channels, it.c) # {}
            THEN ImportChannelsLoop(batch, i + 1, t, [acc EXCEPT !.skipped = @ + 1])
            ELSE IF it.info = "error"
            THEN ImportChannelsLoop(batch, i + 1, t,
                    [acc EXCEPT !.errors = Append(@, "Error importing")])
            ELSE ImportChannelsLoop(batch, i + 1, t,
                    [acc EXCEPT !.channels = @ \cup {ChannelRow(acc.nid, it.c, NULL, t)},
                                !.nid = @ + 1, !.imported = @ + 1])

\* POST /import-export/import/channels
ImportChannels(batch) ==
    /\ now < MaxClock
    /\ now' = now + 1
    /\ UNCHANGED videos
    /\ LET done == ImportChannelsLoop(batch, 1, now, ImportStart)
       IN /\ channels' = done.channels
          /\ nextId' = done.nid
          /\ res' = Returned([NoRes EXCEPT !.op = "import_channels",
                 !.total = Len(batch), !.imported = done.imported,
                 !.skipped = done.skipped, !.errors = done.errors])

\* The fetch results refresh-all can gather for the tracked channels.
FleetResults ==
    [ChannelIds -> FetchOutcomes(SeqsUpTo(VideoIds, MaxFleetLen), {"RetryError", ""})]

\* No batch handler is being followed; no concurrent session is open.
NoFleet ==
    [op |-> "none", pc |-> "idle", batch |-> <<>>, task |-> <<>>, permits |-> 0,
     dbOps |-> 0]

NoSess ==
    [pc |-> "idle", op |-> "none", outcome |-> "none", err |-> "",
     ids |-> <<>>, rows |-> <<>>, chans |-> {}, upd |-> {}]

\* No outbound fetch is being followed.
NoCall ==
    [pc |-> "idle", kind |-> "none", target |-> "", tries |-> <<>>, result |-> NULL,
     msg |-> ""]

Init ==
    /\ channels = {}
    /\ videos = {}
    /\ nextId = 1
    /\ now = 0
    /\ res = NoRes
    /\ feed = [c \in ChannelIds |-> EmptyFetch]
    /\ fleet = NoFleet
    /\ sess = [s \in Sessions |-> NoSess]
    /\ call = NoCall

\* A handler followed as one step leaves the feeds, the task view and the
\* concurrent sessions alone.
Standalone == UNCHANGED <<feed, fleet, sess, call>>

Next ==
    \/ \E c \in ChannelIds, f \in FetchResults : RefreshChannel(c, f) /\ Standalone
    \/ \E results \in FleetResults : RefreshAll(results) /\ Standalone
    \/ \E u \in ChannelUrls, i \in InfoResults, f \in FetchResults : CreateChannel(u, i, f) /\ Standalone
    \/ \E c \in ChannelIds, enforced \in BOOLEAN : DeleteChannel(c, enforced) /\ Standalone
    \/ \E id \in RowIds : SaveVideo(id) /\ Standalone
    \/ \E id \in RowIds : DiscardVideo(id) /\ Standalone
    \/ \E ids \in SUBSET {r.id : r \in videos} : BulkSaveVideos(ids) /\ Standalone
    \/ \E ids \in SUBSET {r.id : r \in videos} : BulkDiscardVideos(ids) /\ Standalone
    \/ \E id \in RowIds : DeleteVideo(id) /\ Standalone
    \/ PurgeAllDiscardedVideos /\ Standalone
    \/ \E u \in VideoUrls, d \in DetailResults : AddVideoFromUrl(u, d) /\ Standalone
    \/ \E batch \in UrlBatches : ImportVideoUrls(batch) /\ Standalone
    \/ \E e \in PlaylistResults, batch \in PlaylistBatches : ImportPlaylist(e, batch) /\ Standalone
    \/ \E batch \in ExportBatches : ImportVideos(batch) /\ Standalone
    \/ \E batch \in ChannelBatches : ImportChannels(batch) /\ Standalone

Spec == Init /\ [][Next]_vars

\* ------------------------------------------- reconciliation on a fixed feed
\* Refreshes of tracked channels while the upstream feeds stay as they are:
\* every fetch of a channel returns feed[channel].  The tables start in a
\* state earlier requests left behind: UC1 tracked with any watermark, UC2
\* tracked without one or not tracked, any subset of the videos stored as
\* from-url stores them.
ReconLists == SeqsUpTo(VideoIds, MaxReconLen)

\* What the feed of the second channel answers: an error, nothing, one video.
SideFeeds == FetchOutcomes({<<>>, <<"v3">>}, {"RetryError"})

ReconFeeds ==
    {[c \in ChannelIds |-> IF c = "UC1" THEN f1 ELSE f2] :
        f1 \in FetchOutcomes(ReconLists, FleetErrors), f2 \in SideFeeds}

SeedChannels(wm, two) ==
    {ChannelRow(1, "UC1", wm, 0)}
        \cup (IF two THEN {ChannelRow(2, "UC2", NULL, 0)} ELSE {})

SeedRowId(v) == IF v = "v1" THEN 3 ELSE IF v = "v2" THEN 4 ELSE 5

SeedVideos(chans, stored) ==
    {VideoRow(SeedRowId(v), v, TrackedRef(chans, Owner(v)), Owner(v), Owner(v),
              "saved", 0, NoTime) : v \in stored}

InitRecon ==
    /\ \E wm \in VideoIds \cup {NULL}, two \in BOOLEAN, stored \in SUBSET VideoIds :
          /\ channels = SeedChannels(wm, two)
          /\ videos = SeedVideos(channels, stored)
    /\ nextId = 6
    /\ now = 1
    /\ res = NoRes
    /\ feed \in ReconFeeds
    /\ fleet = NoFleet
    /\ sess = [s \in Sessions |-> NoSess]
    /\ call = NoCall

\* What refresh-all gathers from the feeds: one outcome per tracked channel.
Gathered(chans, f) ==
    [c \in DOMAIN f |-> IF ChannelsOf(chans, c) # {} THEN f[c] ELSE EmptyFetch]

NextRecon ==
    \/ \E c \in ChannelIds : RefreshChannel(c, feed[c]) /\ Standalone
    \/ RefreshAll(Gathered(channels, feed)) /\ Standalone

SpecRecon == InitRecon /\ [][NextRecon]_vars

\* ------------------------------------------- the fetch phase, task by task
\* refresh_all_channels, import_video_urls and import_playlist read what
\* they need from storage, create one fetch task per item, await
\* asyncio.gather over the tasks, then run their storage loop and commit.
\* fleet.task[i] is the position of task i: waiting for the semaphore,
\* running its network calls, or done; fleet.dbOps counts the statements
\* the handler has sent to its database session.
FleetOps == {"refresh_all", "import_video_urls", "import_playlist"}

\* A handler whose semaphore admits every task it creates.
FleetPermitsUnbounded(op) == 1000

\* asyncio.Semaphore(5) of refresh_all_channels, Semaphore(batch_size = 10)
\* of the import handlers.
FleetPermits(op) == IF op = "refresh_all" THEN 5 ELSE 10

FleetItems ==
    {[url |-> "", detail |-> "ok", info |-> "ok"],
     [url |-> "v1", detail |-> "ok", info |-> "ok"],
     [url |-> "v3", detail |-> "error", info |-> "ok"]}

FleetBatches == SeqsUpTo(FleetItems, MaxFleetBatch)

\* A gather that hands back as soon as one task has returned.
GatherAny(task) == \E i \in 1..Len(task) : task[i] = "done"

\* await asyncio.gather(*tasks) resumes the handler when every task has
\* returned.
GatherDone(task) == \A i \in 1..Len(task) : task[i] = "done"

\* The handler up to the creation of its fetch tasks: select(Channel) and
\* get_http_timeout for refresh-all, get_http_timeout for the imports, and
\* for import-playlist the expansion of the playlist, whose ValueError ends
\* the handler with a one-error result.
FleetStart(op, expand, batch) ==
    /\ fleet.pc = "idle"
    /\ op = "refresh_all" => batch = <<>> /\ expand = "ok"
    /\ op = "import_video_urls" => expand = "ok"
    /\ op = "import_playlist" =>
          /\ \A i \in 1..Len(batch) : batch[i].url \in VideoIds
          /\ expand = "ok" <=> Len(batch) > 0
    /\ UNCHANGED <<feed, sess, call>>
    /\ IF op = "import_playlist" /\ expand = "value_error"
       THEN /\ ImportPlaylist(expand, batch)
            /\ fleet' = [NoFleet EXCEPT !.op = op, !.pc = "done", !.dbOps = 1]
       ELSE /\ UNCHANGED <<channels, videos, nextId, now, res>>
            /\ fleet' = [op |-> op, pc |-> "fetching", batch |-> batch,
                         task |-> IF op = "refresh_all"
                                  THEN [i \in 1..Cardinality(channels) |-> "waiting"]
                                  ELSE [i \in 1..Len(batch) |-> "waiting"],
                         permits |-> FleetPermits(op),
                         dbOps |-> IF op = "refresh_all" THEN 2 ELSE 1]

\* fetch_url_data of a blank URL returns before it reaches the semaphore.
BlankTask(i) == fleet.op = "import_video_urls" /\ fleet.batch[i].url = ""

\* async with semaphore: a task enters when a permit is free.
TaskAcquire(i) ==
    /\ fleet.pc = "fetching"
    /\ fleet.task[i] = "waiting"
    /\ ~BlankTask(i)
    /\ fleet.permits > 0
    /\ fleet' = [fleet EXCEPT !.task[i] = "running", !.permits = @ - 1]
    /\ UNCHANGED <<channels, videos, nextId, now, res, feed, sess, call>>

TaskBlank(i) ==
    /\ fleet.pc = "fetching"
    /\ fleet.task[i] = "waiting"
    /\ BlankTask(i)
    /\ fleet' = [fleet EXCEPT !.task[i] = "done"]
    /\ UNCHANGED <<channels, videos, nextId, now, res, feed, sess, call>>

\* A task that returns without leaving the semaphore.
TaskReturnKeepsSlot(i) ==
    /\ fleet.pc = "fetching"
    /\ fleet.task[i] = "running"
    /\ fleet' = [fleet EXCEPT !.task[i] = "done"]
    /\ UNCHANGED <<channels, videos, nextId, now, res, feed, sess, call>>

\* The task's network calls end, with a result or with a recorded error;
\* the task leaves the semaphore and returns.  It sends nothing to the
\* database session.
TaskReturn(i) ==
    /\ fleet.pc = "fetching"
    /\ fleet.task[i] = "running"
    /\ fleet' = [fleet EXCEPT !.task[i] = "done", !.permits = @ + 1]
    /\ UNCHANGED <<channels, videos, nextId, now, res, feed, sess, call>>

\* gather has returned: the loop over fetch_results and the commit.
FleetStore ==
    /\ fleet.pc = "fetching"
    /\ GatherDone(fleet.task)
    /\ fleet' = [fleet EXCEPT !.pc = "done", !.dbOps = @ + 1]
    /\ UNCHANGED <<feed, sess, call>>
    /\ IF fleet.op = "refresh_all" THEN RefreshAll(Gathered(channels, feed))
       ELSE IF fleet.op = "import_video_urls" THEN ImportVideoUrls(fleet.batch)
       ELSE ImportPlaylist("ok", fleet.batch)

FleetFeeds ==
    {[c \in ChannelIds |-> IF c = "UC1" THEN f1 ELSE f2] :
        f1 \in FetchOutcomes(SeqsUpTo(VideoIds, MaxFleetLen), {"RetryError"}),
        f2 \in SideFeeds}

InitFleet ==
    /\ channels = SeedChannels(NULL, TRUE)
    /\ \E stored \in SUBSET {"v1"} : videos = SeedVideos(channels, stored)
    /\ nextId = 6
    /\ now = 1
    /\ res = NoRes
    /\ feed \in FleetFeeds
    /\ fleet = NoFleet
    /\ sess = [s \in Sessions |-> NoSess]
    /\ call = NoCall

NextFleet ==
    \/ \E op \in FleetOps, e \in PlaylistResults, batch \in FleetBatches :
          FleetStart(op, e, batch)
    \/ \E i \in 1..Len(fleet.task) : TaskAcquire(i)
    \/ \E i \in 1..Len(fleet.task) : TaskBlank(i)
    \/ \E i \in 1..Len(fleet.task) : TaskReturn(i)
    \/ FleetStore

SpecFleet == InitFleet /\ [][NextFleet]_vars

\* ------------------------------------------- more tasks than permits
\* The fetch phase with more fetch tasks than the semaphore has permits:
\* refresh-all over MaxPoolChannels tracked channels, and imports of batches
\* of up to MaxPoolLen references.  The event loop starts the tasks in the
\* order gather received them and asyncio.Semaphore wakes its waiters first
\* in, first out, so the tasks enter the semaphore in batch order; the order
\* in which their network calls end is free.
MaxPoolChannels == 6
MaxPoolLen == 11

PoolNames == <<"UC1", "UC2", "UC3", "UC4", "UC5", "UC6", "UC7", "UC8">>

PoolChannelIds == {PoolNames[i] : i \in 1..MaxPoolChannels}

PoolChannels == {ChannelRow(i, PoolNames[i], NULL, 0) : i \in 1..MaxPoolChannels}

\* Batches of n references to v1, and the same with a blank first line.
PoolBatches ==
    {[i \in 1..n |-> [url |-> IF blank /\ i = 1 THEN "" ELSE "v1",
                       detail |-> "ok", info |-> "ok"]] :
        n \in 0..MaxPoolLen, blank \in BOOLEAN}

\* The next task in line: every earlier task that uses the semaphore has
\* entered it.
InOrder(i) == \A j \in 1..(i - 1) : fleet.task[j] # "waiting" \/ BlankTask(j)

InitPool ==
    /\ channels = PoolChannels
    /\ videos = {}
    /\ nextId = MaxPoolChannels + 1
    /\ now = 1
    /\ res = NoRes
    /\ \E f \in FetchOutcomes({<<>>}, {"RetryError"}) :
          feed = [c \in PoolChannelIds |-> IF c = "UC1" THEN f ELSE EmptyFetch]
    /\ fleet = NoFleet
    /\ sess = [s \in Sessions |-> NoSess]
    /\ call = NoCall

NextPool ==
    \/ \E op \in FleetOps, batch \in PoolBatches : FleetStart(op, "ok", batch)
    \/ \E i \in 1..Len(fleet.task) : TaskAcquire(i) /\ InOrder(i)
    \/ \E i \in 1..Len(fleet.task) : TaskBlank(i)
    \/ \E i \in 1..Len(fleet.task) : TaskReturn(i)
    \/ FleetStore

SpecPool == InitPool /\ [][NextPool]_vars

\* ------------------------------------------- refresh-all to completion
\* One refresh-all request over MaxPoolChannels tracked channels, run to its
\* end.  The event loop resumes every coroutine that can run: a task that is
\* next in line enters the semaphore once a permit is free, the handler
\* resumes once gather has every result.  fetch_videos ends, with a list or
\* with an exception that _fetch_channel_videos turns into an error string:
\* each attempt is bounded by the httpx timeout and tenacity stops after
\* MaxAttempts attempts.  Whether a request arrives at all is left open.
\* The fairness asked of the tasks is that of the task set as a whole: while
\* a task can enter, some task enters; while a fetch is under way, some
\* fetch ends.
InitLive ==
    /\ channels = PoolChannels
    /\ videos = {}
    /\ nextId = MaxPoolChannels + 1
    /\ now = 1
    /\ res = NoRes
    /\ \E f1 \in FetchOutcomes({<<>>, <<"v1">>}, {"RetryError"}),
          f2 \in FetchOutcomes({<<>>}, {"RetryError"}) :
          feed = [c \in PoolChannelIds |-> IF c = "UC1" THEN f1
                                          ELSE IF c = "UC2" THEN f2 ELSE EmptyFetch]
    /\ fleet = NoFleet
    /\ sess = [s \in Sessions |-> NoSess]
    /\ call = NoCall

NextLive ==
    \/ FleetStart("refresh_all", "ok", <<>>)
    \/ \E i \in 1..Len(fleet.task) : TaskAcquire(i) /\ InOrder(i)
    \/ \E i \in 1..Len(fleet.task) : TaskReturn(i)
    \/ FleetStore

SpecLive ==
    /\ InitLive
    /\ [][NextLive]_vars
    /\ WF_vars(\E i \in 1..Len(fleet.task) : TaskAcquire(i) /\ InOrder(i))
    /\ WF_vars(\E i \in 1..Len(fleet.task) : TaskReturn(i))
    /\ WF_vars(FleetStore)

\* --------------------------------------------------- concurrent sessions
\* Two requests, each in its own session (get_db opens one per request).
\* A handler's lookups read the committed tables; what it adds and assigns
\* stays in its session until its commit, which sends the INSERTs and
\* UPDATEs to the tables.  sess[s].ids are the video ids the session
\* staged for insertion, rows the staged Video rows, chans and upd the
\* Channel and Video rows it assigned to.
SessEnd(s, outcome, err) ==
    [sess EXCEPT ![s] = [@ EXCEPT !.pc = "done", !.outcome = outcome, !.err = err]]

\* refresh_channel up to its commit: the channel lookup, the fetch and
\* _process_new_videos.
SessRefresh(s, c) ==
    /\ sess[s].pc = "idle"
    /\ UNCHANGED <<channels, videos, now, res, feed, fleet, call>>
    /\ LET f == feed[c]
           open == [sess[s] EXCEPT !.op = "refresh"]
       IN IF ChannelsOf(channels, c) = {}
          THEN /\ sess' = SessEnd(s, "raised", "not_found")
               /\ UNCHANGED nextId
          ELSE IF f.error # NULL
          THEN /\ sess' = SessEnd(s, "raised", "external_service")
               /\ UNCHANGED nextId
          ELSE LET chan == OneOf(ChannelsOf(channels, c))
                   walk == ProcessNewVideos(chan, f.videos, StoredIds(videos))
                   rows == InboxRows(walk.staged, chan.id, nextId)
               IN /\ sess' = [sess EXCEPT ![s] =
                         [open EXCEPT !.pc = "staged", !.ids = walk.staged,
                                      !.rows = rows,
                                      !.chans = {Reconciled(chan, walk, now)}]]
                  /\ nextId' = nextId + Len(rows)

\* add_video_from_url up to its commit: the lookup of the video, then the
\* assignments to the row found, or the fetch and the new row.
SessFromUrl(s, u, d) ==
    /\ sess[s].pc = "idle"
    /\ u = BadUrl \/ RowsOf(videos, u) # {} => d = "ok"
    /\ UNCHANGED <<channels, videos, now, res, feed, fleet, call>>
    /\ LET open == [sess[s] EXCEPT !.op = "from_url"]
       IN IF u = BadUrl
          THEN /\ sess' = SessEnd(s, "raised", "validation")
               /\ UNCHANGED nextId
          ELSE IF RowsOf(videos, u) # {}
          THEN /\ sess' = [sess EXCEPT ![s] =
                      [open EXCEPT !.pc = "staged",
                                   !.upd = {Saved(OneOf(RowsOf(videos, u)), now)}]]
               /\ UNCHANGED nextId
          ELSE IF d = "error"
          THEN /\ sess' = SessEnd(s, "raised", "external_service")
               /\ UNCHANGED nextId
          ELSE /\ sess' = [sess EXCEPT ![s] =
                      [open EXCEPT !.pc = "staged", !.ids = <<u>>,
                                   !.rows = <<VideoRow(nextId, u,
                                                TrackedRef(channels, Owner(u)),
                                                Owner(u), Owner(u), "saved", now, NoTime)>>]]
               /\ nextId' = nextId + 1

\* A table after the UPDATEs of a session: rows are matched by primary key.
Updated(table, changed) ==
    {IF \E n \in changed : n.id = r.id
     THEN CHOOSE n \in changed : n.id = r.id
     ELSE r : r \in table}

\* await db.commit() of either handler.  Neither wraps it in a try: an
\* IntegrityError of the flush leaves the handler as an exception.
SessCommit(s) ==
    /\ sess[s].pc = "staged"
    /\ UNCHANGED <<nextId, now, res, feed, fleet, call>>
    /\ IF VideoKeyConflict(videos, sess[s].rows)
       THEN /\ sess' = SessEnd(s, "raised", "integrity")
            /\ UNCHANGED <<channels, videos>>
       ELSE /\ videos' = Updated(videos, sess[s].upd) \cup SeqToSet(sess[s].rows)
            /\ channels' = Updated(channels, sess[s].chans)
            /\ sess' = SessEnd(s, "returned", "")

InitRace ==
    /\ \E two \in BOOLEAN : channels = SeedChannels(NULL, two)
    /\ \E stored \in SUBSET {"v1"} : videos = SeedVideos(channels, stored)
    /\ nextId = 6
    /\ now = 1
    /\ res = NoRes
    /\ feed \in FleetFeeds
    /\ fleet = NoFleet
    /\ sess = [s \in Sessions |-> NoSess]
    /\ call = NoCall

NextRace ==
    \/ \E s \in Sessions, c \in ChannelIds : SessRefresh(s, c)
    \/ \E s \in Sessions, u \in VideoUrls, d \in DetailResults : SessFromUrl(s, u, d)
    \/ \E s \in Sessions : SessCommit(s)

SpecRace == InitRace /\ [][NextRace]_vars

\* ----------------------------------------------- one batch on seeded tables
\* One import-video-urls or import-playlist request with a batch of several
\* references, on tables earlier requests left behind: UC1 tracked or not,
\* v1 and v2 each absent, in the inbox, saved or discarded.
MaxImportLen == 2

ImportUrlBatches == SeqsUpTo(ImportItems, MaxImportLen)

ImportPlaylistBatches ==
    SeqsUpTo({it \in ImportItems : it.url \in VideoIds}, MaxImportLen)

SeedStates == {"absent", "inbox", "saved", "discarded"}

\* A stored row as the handler that gave it its status wrote it: an inbox
\* row as reconciliation inserts it, a discarded row as discard_video leaves
\* it, a saved row as from-url inserts it.
SeedRow(chans, v, status) ==
    LET inbox == VideoRow(SeedRowId(v), v, TrackedRef(chans, Owner(v)), NULL, NULL,
                          "inbox", NoTime, NoTime)
    IN IF status = "inbox" THEN inbox
       ELSE IF status = "discarded" THEN Discarded(inbox, 0)
       ELSE VideoRow(SeedRowId(v), v, TrackedRef(chans, Owner(v)), Owner(v), Owner(v),
                     "saved", 0, NoTime)

InitImport ==
    /\ \E tracked \in BOOLEAN, st \in [{"v1", "v2"} -> SeedStates] :
          /\ channels = (IF tracked THEN SeedChannels(NULL, FALSE) ELSE {})
          /\ videos = {SeedRow(channels, v, st[v]) : v \in {x \in {"v1", "v2"} : st[x] # "absent"}}
    /\ nextId = 6
    /\ now = MaxClock - 1
    /\ res = NoRes
    /\ feed = [c \in ChannelIds |-> EmptyFetch]
    /\ fleet = NoFleet
    /\ sess = [s \in Sessions |-> NoSess]
    /\ call = NoCall

NextImport ==
    \/ \E batch \in ImportUrlBatches : ImportVideoUrls(batch) /\ Standalone
    \/ \E e \in PlaylistResults, batch \in ImportPlaylistBatches : ImportPlaylist(e, batch) /\ Standalone

SpecImport == InitImport /\ [][NextImport]_vars

\* ------------------------------------------------ one fetch, with retries
\* One call of a function decorated with tenacity's @retry(stop =
\* stop_after_attempt(3), wait = wait_exponential(...), retry =
\* retry_if_exception_type(...)), followed attempt by attempt.  call.tries
\* is what the network did at each attempt so far: "ok", "transient" (an
\* httpx.HTTPError of the httpx fetches, a yt_dlp DownloadError of the
\* yt-dlp fetches), "parse" (the answer arrived and holds no usable data) or
\* "consent" (the page fetch was redirected to consent.youtube.com or
\* consent.google.com and the consent page arrived with status 200).
\* call.msg is the text of the exception the call ends with.
MaxAttempts == 3

RetryKinds == {"page", "channel_info", "videos", "video_detail", "playlist"}

\* The fetches made through yt-dlp; the others are made through httpx.
YtDlpKinds == {"video_detail", "playlist"}

\* What a call is made for: a channel URL of one of the three forms that
\* are resolved through a page fetch, a channel id, a video id, a playlist
\* URL.
CallTargets(kind) ==
    IF kind = "page"
    THEN {"/@uc1", "/@uc2", "/c/uc1", "/c/uc2", "/user/uc1", "/user/uc2"}
    ELSE IF kind = "video_detail" THEN VideoIds
    ELSE IF kind = "playlist" THEN {"PL1"}
    ELSE ChannelIds

\* fetch_videos answers an unusable feed with an empty list; the other
\* functions raise on it.
AttemptOutcomes(kind) ==
    IF kind = "videos" THEN {"ok", "transient"}
    ELSE IF kind = "page" THEN {"ok", "transient", "parse", "consent"}
    ELSE {"ok", "transient", "parse"}

\* The exception the attempt meets inside the function body.
Met(kind, o) ==
    IF o = "ok" THEN NULL
    ELSE IF o \in {"parse", "consent"} THEN "ValueError"
    ELSE IF kind \in YtDlpKinds THEN "DownloadError" ELSE "HTTPError"

\* The exception that leaves the function body: fetch_video_by_id and
\* fetch_playlist_video_ids catch DownloadError and raise ValueError.
Leaves(kind, exc) ==
    IF kind \in YtDlpKinds /\ exc = "DownloadError" THEN "ValueError" ELSE exc

\* str() of the ValueError a function raises when the answer holds no
\* usable data.  _fetch_channel_id_from_page searches the html it received
\* for a channel id and has one raise for every page without one.
Message(kind, o) ==
    IF kind = "page" THEN "Could not extract channel ID from page"
    ELSE IF kind = "channel_info" THEN "Could not parse RSS feed for channel"
    ELSE IF kind = "video_detail" THEN "Failed to fetch video info"
    ELSE "Failed to fetch playlist"

\* retry_if_exception_type of the decorator.
RetriedOn(kind) == IF kind \in YtDlpKinds THEN {"DownloadError"} ELSE {"HTTPError"}

CallStart(kind, target) ==
    /\ call.pc \in {"idle", "done"}
    /\ call' = [NoCall EXCEPT !.pc = "running", !.kind = kind, !.target = target]
    /\ UNCHANGED <<channels, videos, nextId, now, res, feed, fleet, sess>>

\* One attempt: the body runs; tenacity returns its value, or retries after
\* a wait when the exception is of a retried type and attempts are left,
\* or raises RetryError when none is left, or lets the exception through.
CallAttempt(o) ==
    /\ call.pc = "running"
    /\ o \in AttemptOutcomes(call.kind)
    /\ LET exc == Leaves(call.kind, Met(call.kind, o))
           tries == Append(call.tries, o)
       IN call' = IF exc = NULL
                  THEN [call EXCEPT !.tries = tries, !.pc = "done", !.result = "ok"]
                  ELSE IF exc \notin RetriedOn(call.kind)
                  THEN [call EXCEPT !.tries = tries, !.pc = "done", !.result = exc,
                                    !.msg = Message(call.kind, o)]
                  ELSE IF Len(tries) < MaxAttempts
                  THEN [call EXCEPT !.tries = tries, !.pc = "backoff"]
                  ELSE [call EXCEPT !.tries = tries, !.pc = "done", !.result = "RetryError"]
    /\ UNCHANGED <<channels, videos, nextId, now, res, feed, fleet, sess>>

\* The wait of wait_exponential ends and the next attempt starts.
CallBackoff ==
    /\ call.pc = "backoff"
    /\ call' = [call EXCEPT !.pc = "running"]
    /\ UNCHANGED <<channels, videos, nextId, now, res, feed, fleet, sess>>

InitRetry ==
    /\ channels = {}
    /\ videos = {}
    /\ nextId = 1
    /\ now = 0
    /\ res = NoRes
    /\ feed = [c \in ChannelIds |-> EmptyFetch]
    /\ fleet = NoFleet
    /\ sess = [s \in Sessions |-> NoSess]
    /\ call = NoCall

NextRetry ==
    \/ \E kind \in RetryKinds : \E target \in CallTargets(kind) : CallStart(kind, target)
    \/ \E o \in {"ok", "transient", "parse", "consent"} : CallAttempt(o)
    \/ CallBackoff

SpecRetry == InitRetry /\ [][NextRetry]_vars

\* =================================================================== claims
\* ------------------------------------------------------------------- C1
\* C1: in every reachable state, whatever sequence of add-channel, refresh,
\* refresh-all, from-url and import requests led to it, no two Video rows
\* carry the same external video id.
C1_OneRowPerVideoId ==
    \A r1 \in videos : \A r2 \in videos :
        r1.youtube_video_id = r2.youtube_video_id => r1 = r2

\* A refresh was handed a video another entry point had already stored,
\* looked it up and finished with that video stored once.
C1_Witness ==
    /\ res.op = "refresh"
    /\ res.outcome = "returned"
    /\ \E i \in 1..Len(res.looked) :
          /\ res.looked[i] \in res.oldStored
          /\ Cardinality(RowsOf(videos, res.looked[i])) = 1
          /\ \E r \in RowsOf(videos, res.looked[i]) : r.status = "saved"

\* ------------------------------------------------------------------- C2
\* C2: a refresh walks the candidate list up to the first candidate equal
\* to the channel's watermark: it looks up exactly the candidates before
\* that position, adds exactly those of them its lookup did not find, in
\* order, and, when it returns, the rows it inserted are those.
C2_StopShort ==
    (res.op = "refresh" /\ res.ferr = NULL /\ res.err # "not_found") =>
        LET list == res.list
            hits == {i \in 1..Len(list) : list[i] = res.oldWm}
            stop == IF hits = {} THEN Len(list) + 1
                    ELSE CHOOSE i \in hits : \A j \in hits : i <= j
            before == SubSeq(list, 1, stop - 1)
            Absent(v) == v \notin res.oldStored
        IN /\ res.looked = before
           /\ res.staged = SelectSeq(before, Absent)
           /\ res.outcome = "returned" =>
                 /\ {r.youtube_video_id : r \in {x \in videos : x.id \in res.created}}
                        = SeqToSet(res.staged)
                 /\ Cardinality(res.created) = Len(res.staged)

\* The list [a, watermark, x] with a and x not stored: a was created, x was
\* neither looked up nor created.
C2_Witness ==
    /\ res.op = "refresh"
    /\ res.outcome = "returned"
    /\ Len(res.list) = 3
    /\ res.list[2] = res.oldWm
    /\ res.list[1] # res.list[3]
    /\ res.list[1] \notin res.oldStored
    /\ res.list[3] \notin res.oldStored
    /\ res.staged = <<res.list[1]>>
    /\ res.list[1] \in StoredIds(videos)
    /\ res.list[3] \notin StoredIds(videos)

\* ------------------------------------------------------------------- C3
\* C3: a refresh whose fetch returns N >= 1 distinct ids, none of them the
\* channel's watermark (a null watermark included) and none of them stored,
\* returns, creates exactly N inbox videos, one per id, and leaves the
\* watermark at the first item of the list.
C3_FreshList ==
    (/\ res.op = "refresh" /\ res.ferr = NULL /\ res.err # "not_found"
     /\ Len(res.list) >= 1
     /\ \A i, j \in 1..Len(res.list) : i # j => res.list[i] # res.list[j]
     /\ \A i \in 1..Len(res.list) :
           res.list[i] # res.oldWm /\ res.list[i] \notin res.oldStored)
    => /\ res.outcome = "returned"
       /\ res.added = Len(res.list)
       /\ Cardinality(res.created) = Len(res.list)
       /\ \A i \in 1..Len(res.list) :
             \E r \in videos : /\ r.id \in res.created
                               /\ r.youtube_video_id = res.list[i]
                               /\ r.status = "inbox"
       /\ \A ch \in ChannelsOf(channels, res.ch) : ch.last_video_id = res.list[1]

\* Two fresh ids fetched for a channel whose watermark is a third id.
C3_Witness ==
    /\ res.op = "refresh"
    /\ res.outcome = "returned"
    /\ Len(res.list) = 2
    /\ res.list[1] # res.list[2]
    /\ res.oldWm \in VideoIds
    /\ \A i \in 1..2 : res.list[i] # res.oldWm /\ res.list[i] \notin res.oldStored
    /\ Cardinality(res.created) = 2

\* ------------------------------------------------------------------- C4
\* C4: a refresh or a refresh-all that directly follows the same operation
\* with the same fetched lists leaves the videos table and every watermark
\* as they were.
C4_SecondRunIdle ==
    [][res'.repeat =>
          /\ videos' = videos
          /\ \A after \in channels' : \E before \in channels :
                before.id = after.id /\ before.last_video_id = after.last_video_id]_vars

\* The second of two refreshes of a list whose first item the first refresh
\* created and made the watermark.
C4_Witness ==
    /\ res.op = "refresh"
    /\ res.repeat
    /\ res.outcome = "returned"
    /\ Len(res.list) >= 2
    /\ res.oldWm = res.list[1]
    /\ \E r \in RowsOf(videos, res.list[1]) : r.status = "inbox"
    /\ res.created = {}

\* ------------------------------------------------------------------- C5
\* C5: no Video row ever has both its saved timestamp and its discarded
\* timestamp set.
C5_OneTimestamp ==
    \A r \in videos : ~(r.saved_at # NoTime /\ r.discarded_at # NoTime)

\* ------------------------------------------------------------------- C6
\* C6: a refresh-all in which some fetches fail and some succeed returns;
\* its channels_refreshed is the number of successful fetches, its error
\* list names each failed channel exactly once, and the videos it found
\* for the channels whose fetch succeeded are stored and counted.
C6_FleetIsolation ==
    (res.op = "refresh_all" /\ res.fetchFailed # {} /\ res.fetchedOk # {}) =>
        /\ res.outcome = "returned"
        /\ res.refreshed = Cardinality(res.fetchedOk)
        /\ Len(res.errors) = Cardinality(res.fetchFailed)
        /\ SeqToSet(res.errors) = res.fetchFailed
        /\ SeqToSet(res.staged) \subseteq StoredIds(videos)
        /\ res.found = Len(res.staged)

\* ------------------------------------------------------------------- C7
\* C7: in refresh-all, import-video-urls and import-playlist, a step in
\* which the handler sends a statement to its database session or changes
\* a table is taken only when every fetch task it created has returned.
C7_NoStorageDuringFetch ==
    [][(fleet'.dbOps # fleet.dbOps \/ videos' # videos \/ channels' # channels) =>
          \A i \in 1..Len(fleet.task) : fleet.task[i] = "done"]_vars

\* A refresh-all over two channels has run its two fetch tasks and stored
\* what they found.
C7_Witness ==
    /\ fleet.op = "refresh_all"
    /\ fleet.pc = "done"
    /\ Len(fleet.task) = 2
    /\ res.outcome = "returned"
    /\ res.created # {}

\* ------------------------------------------------------------------- C8
\* C8: when two concurrent handlers both found a video id absent and both
\* staged its insertion, both finish by returning a result, and the id is
\* stored once.
C8_LaterWriterSkips ==
    \A s \in Sessions : \A t \in Sessions :
        (/\ s # t
         /\ sess[s].pc = "done" /\ sess[t].pc = "done"
         /\ SeqToSet(sess[s].ids) \cap SeqToSet(sess[t].ids) # {}
         /\ \A i, j \in 1..Len(sess[s].ids) : i # j => sess[s].ids[i] # sess[s].ids[j]
         /\ \A i, j \in 1..Len(sess[t].ids) : i # j => sess[t].ids[i] # sess[t].ids[j])
        => /\ sess[s].outcome = "returned"
           /\ sess[t].outcome = "returned"
           /\ \A v \in SeqToSet(sess[s].ids) : Cardinality(RowsOf(videos, v)) = 1

\* ------------------------------------------------------------------- C9
\* C9: refresh-all, import-video-urls and import-playlist always return a
\* result; none of them ends by propagating an exception.
C9_BatchReturns ==
    res.op \in {"refresh_all", "import_video_urls", "import_playlist"} =>
        res.outcome = "returned"

\* ------------------------------------------------------------------ C10
\* C10: an add-channel for an untracked channel whose info and initial
\* fetch succeed, and whose fetched list (of distinct ids) contains a video
\* that is already stored, returns and leaves the channel tracked.
C10_CreateSkipsStored ==
    (/\ res.op = "create_channel"
     /\ res.err \notin {"validation", "already_exists", "external_service"}
     /\ \A i, j \in 1..Len(res.list) : i # j => res.list[i] # res.list[j]
     /\ SeqToSet(res.list) \cap res.oldStored # {})
    => /\ res.outcome = "returned"
       /\ ChannelsOf(channels, res.ch) # {}

C12_FailedFetchFrame ==
    [][/\ (res'.op = "refresh" /\ res'.ferr # NULL) =>
              /\ res'.outcome = "raised" /\ res'.err = "external_service"
              /\ channels' = channels /\ videos' = videos
       /\ res'.op = "refresh_all" =>
              \A c \in res'.fetchFailed :
                 /\ ChannelsOf(channels', c) = ChannelsOf(channels, c)
                 /\ \A chan \in ChannelsOf(channels, c) :
                        {r \in videos' : r.channel_id = chan.id}
                            = {r \in videos : r.channel_id = chan.id}
                 /\ res'.outcome = "returned" =>
                        /\ c \in SeqToSet(res'.errors)
                        /\ res'.refreshed = Cardinality(res'.fetchedOk)]_vars

\* A refresh-all that returned after the fetch of UC1 failed while UC2's
\* fetch brought a new video, which is stored.
C12_Witness ==
    /\ res.op = "refresh_all"
    /\ res.outcome = "returned"
    /\ res.fetchFailed = {"UC1"}
    /\ res.fetchedOk = {"UC2"}
    /\ res.errors = <<"UC1">>
    /\ res.added = 1
    /\ \E r \in videos : r.id \in res.created /\ r.youtube_video_id = "v3"

\* ------------------------------------------------------------------ C13
\* C13: in every step, a channel row whose watermark is not null keeps a
\* non-null watermark, and a row whose watermark changes gets the id of an
\* item of the list fetched for it that stands before the stop point (the
\* first occurrence of the old watermark, or the end of the list); in a
\* list of distinct ids that id stands nowhere at or after the stop point.
C13_WatermarkMoves ==
    [][\A b \in channels : \A a \in channels' :
          a.id = b.id =>
             /\ b.last_video_id # NULL => a.last_video_id # NULL
             /\ a.last_video_id # b.last_video_id =>
                    LET list == IF res'.op = "refresh" THEN res'.list
                                ELSE res'.results[b.youtube_channel_id].videos
                        hits == {k \in 1..Len(list) : list[k] = b.last_video_id}
                        stop == IF hits = {} THEN Len(list) + 1
                                ELSE CHOOSE k \in hits : \A h \in hits : k <= h
                    IN /\ res'.op \in {"refresh", "refresh_all"}
                       /\ \E k \in 1..(stop - 1) : list[k] = a.last_video_id
                       /\ (\A m, n \in 1..Len(list) : list[m] = list[n] => m = n) =>
                              \A k \in stop..Len(list) : list[k] # a.last_video_id]_vars

\* A refresh that moved a non-null watermark to the first item of a list in
\* which the old watermark stands second and another item follows it.
C13_Witness ==
    /\ res.op = "refresh"
    /\ res.outcome = "returned"
    /\ res.oldWm # NULL
    /\ res.wmChanged = {res.ch}
    /\ Len(res.list) = 3
    /\ res.list[2] = res.oldWm
    /\ res.list[3] # res.list[1]
    /\ \E r \in ChannelsOf(channels, res.ch) : r.last_video_id = res.list[1]

\* ------------------------------------------------------------------ C14
\* C14: a refresh whose fetch returns an empty list returns, reports zero
\* new videos, leaves the videos table as it was and changes nothing of the
\* channel row but last_checked; a refresh-all leaves every field but
\* last_checked of a channel whose list is empty, and the videos owned by
\* it, as they were, and when it returns it reports no error for it.
C14_EmptyListFrame ==
    [][/\ (res'.op = "refresh" /\ res'.ferr = NULL /\ res'.list = <<>>
              /\ ChannelsOf(channels, res'.ch) # {}) =>
              /\ res'.outcome = "returned"
              /\ res'.added = 0 /\ res'.created = {}
              /\ videos' = videos
              /\ channels' = {IF r.youtube_channel_id = res'.ch
                               THEN [r EXCEPT !.last_checked = now] ELSE r : r \in channels}
       /\ res'.op = "refresh_all" =>
              \A c \in res'.fetchedOk :
                 res'.results[c].videos = <<>> =>
                    /\ \A b \in ChannelsOf(channels, c) :
                          /\ \E a \in channels' : [a EXCEPT !.last_checked = 0]
                                                     = [b EXCEPT !.last_checked = 0]
                          /\ {r \in videos' : r.channel_id = b.id}
                                = {r \in videos : r.channel_id = b.id}
                    /\ res'.outcome = "returned" =>
                          /\ c \notin SeqToSet(res'.errors)
                          /\ \A a \in ChannelsOf(channels', c) : a.last_checked = now]_vars

\* A refresh with an empty list of a channel that has a watermark: the
\* watermark is still there and last_checked is the time of the refresh.
C14_Witness ==
    /\ res.op = "refresh"
    /\ res.outcome = "returned"
    /\ res.ferr = NULL
    /\ res.list = <<>>
    /\ res.oldWm # NULL
    /\ \E r \in ChannelsOf(channels, res.ch) :
          r.last_video_id = res.oldWm /\ r.last_checked = now - 1 /\ r.last_checked > 0

\* ------------------------------------------------------------------ C15
\* C15: while refresh-all fetches, at most 5 of its fetch tasks are inside
\* the semaphore (running their network calls); while import-video-urls or
\* import-playlist fetches, at most 10 are; the other tasks wait or are done.
C15_BoundedFetches ==
    fleet.pc = "fetching" =>
        Cardinality({i \in 1..Len(fleet.task) : fleet.task[i] = "running"})
            <= (IF fleet.op = "refresh_all" THEN 5 ELSE 10)

\* An import of eleven references: ten fetch tasks run and the eleventh
\* waits for a permit.
C15_Witness ==
    /\ fleet.pc = "fetching"
    /\ fleet.op = "import_video_urls"
    /\ Cardinality({i \in 1..Len(fleet.task) : fleet.task[i] = "running"}) = 10
    /\ \E i \in 1..Len(fleet.task) : fleet.task[i] = "waiting" /\ ~BlankTask(i)

\* ------------------------------------------------------------------ C16
\* C16: after an import-video-urls or import-playlist batch, for every
\* successfully fetched reference: a video that was stored and not saved
\* is the same row with status saved and saved_at the time of the import; a
\* video that was stored and saved is unchanged; a video that was not
\* stored has exactly one row, created by the batch, with status saved.
\* References to stored videos create no row: the rows created are one per
\* distinct new video id, and every Channel row created is the owner of a
\* created video.  imported counts the references that found their video
\* not saved or not stored, skipped the references that found it saved.
C16_StoragePhase ==
    res.op \in {"import_video_urls", "import_playlist"} =>
        LET f == res.fetched
            ok == {i \in 1..Len(f) : ~f[i].skip /\ f[i].error = NULL}
            first == {i \in ok : \A j \in ok : j < i => f[j].video_id # f[i].video_id}
            wasSaved(v) == \E o \in res.oldRows : o.youtube_video_id = v /\ o.status = "saved"
            fresh == {f[i].video_id : i \in ok} \ res.oldStored
        IN /\ \A i \in ok : \A o \in RowsOf(res.oldRows, f[i].video_id) :
                 IF o.status = "saved" THEN o \in videos
                 ELSE \E r \in videos :
                         /\ r.status = "saved" /\ r.saved_at = now - 1
                         /\ [r EXCEPT !.status = o.status, !.saved_at = o.saved_at] = o
           /\ \A v \in fresh :
                 /\ Cardinality(RowsOf(videos, v)) = 1
                 /\ \A r \in RowsOf(videos, v) : r.status = "saved" /\ r.id \in res.created
           /\ {r.youtube_video_id : r \in {x \in videos : x.id \in res.created}} = fresh
           /\ Cardinality(videos) = Cardinality(res.oldRows) + Cardinality(fresh)
           /\ \A c \in channels :
                 c.youtube_channel_id \notin res.oldTracked =>
                    \E v \in fresh : Owner(v) = c.youtube_channel_id
           /\ res.imported = Cardinality({i \in first : ~wasSaved(f[i].video_id)})
           /\ res.skipped = Cardinality(ok) - res.imported

\* A batch of a discarded video and a saved one, both of an untracked
\* channel whose info was fetched: the first is saved and counted imported,
\* the second is counted skipped, and no row is created.
C16_Witness ==
    /\ res.op \in {"import_video_urls", "import_playlist"}
    /\ Len(res.fetched) = 2
    /\ res.oldTracked = {}
    /\ \A i \in 1..2 : res.fetched[i].channel_info
    /\ \E o \in res.oldRows :
          o.youtube_video_id = res.fetched[1].video_id /\ o.status = "discarded"
    /\ \E o \in res.oldRows :
          o.youtube_video_id = res.fetched[2].video_id /\ o.status = "saved"
    /\ res.imported = 1 /\ res.skipped = 1
    /\ res.created = {}
    /\ channels = {}
    /\ \A r \in videos : r.status = "saved"

\* ------------------------------------------------------------------ C17
\* C17: import-video-urls reports as total the number of references it was
\* given, and imported + skipped + the number of error strings equals that
\* total; a video id that is not stored and stands several times in the
\* batch is counted imported for its first fetched occurrence and skipped
\* for every later one.
C17_EveryReferenceCounted ==
    res.op = "import_video_urls" =>
        LET f == res.fetched
            ok == {i \in 1..Len(f) : ~f[i].skip /\ f[i].error = NULL}
            new == {i \in ok : f[i].video_id \notin res.oldStored}
            first == {i \in new : \A j \in new : j < i => f[j].video_id # f[i].video_id}
        IN /\ res.total = Len(res.list)
           /\ res.imported + res.skipped + Len(res.errors) = res.total
           /\ res.imported >= Cardinality(first)
           /\ res.skipped >= Cardinality(new \ first)
           /\ Cardinality({r \in videos : r.id \in res.created}) = Cardinality(first)

\* ------------------------------------------------------------------ C18
\* C18: an import-playlist whose expansion fails ends in the step that
\* starts it: it returns total 0, imported 0, skipped 0 and exactly one
\* error string, creates no fetch task, and leaves the channels and videos
\* tables as they were.
C18_FailedExpansion ==
    [][(fleet.pc = "idle" /\ fleet'.op = "import_playlist" /\ fleet'.pc = "done") =>
          /\ res'.op = "import_playlist"
          /\ res'.outcome = "returned"
          /\ res'.total = 0 /\ res'.imported = 0 /\ res'.skipped = 0
          /\ Len(res'.errors) = 1
          /\ fleet'.task = <<>>
          /\ channels' = channels /\ videos' = videos /\ nextId' = nextId]_vars

\* The failed import-playlist on tables that hold channels and a video.
C18_Witness ==
    /\ fleet.op = "import_playlist"
    /\ fleet.pc = "done"
    /\ fleet.task = <<>>
    /\ res.op = "import_playlist"
    /\ res.outcome = "returned"
    /\ res.total = 0
    /\ Len(res.errors) = 1
    /\ videos # {} /\ channels # {}

\* ------------------------------------------------------------------ C19
\* C19: a delete-channel that returns removes the Channel row and no Video
\* row: the videos table has the same number of rows, every row that
\* referenced the deleted channel is the same row with a null channel_id,
\* and every other row is unchanged.
C19_DeleteKeepsVideos ==
    [][(res'.op = "delete_channel" /\ res'.outcome = "returned") =>
          \E chan \in channels :
             /\ chan.youtube_channel_id = res'.ch
             /\ channels' = channels \ {chan}
             /\ Cardinality(videos') = Cardinality(videos)
             /\ videos' = {IF r.channel_id = chan.id THEN [r EXCEPT !.channel_id = NoRef]
                            ELSE r : r \in videos}]_vars

\* ------------------------------------------------------------------ C20
\* C20: after every step the channels table holds at most one row per
\* external channel id; an add-channel for an id that is tracked raises
\* already-exists and leaves both tables as they were; an import leaves
\* the row of every tracked channel in place, creates no second row for
\* it, and the videos it creates for a tracked channel reference that row.
C20_OneRowPerChannelId ==
    [][/\ \A c \in ChannelIds :
             Cardinality({r \in channels' : r.youtube_channel_id = c}) <= 1
       /\ (res'.op = "create_channel"
              /\ \E r \in channels : r.youtube_channel_id = res'.ch) =>
              /\ res'.outcome = "raised" /\ res'.err = "already_exists"
              /\ channels' = channels /\ videos' = videos
       /\ res'.op \in {"import_video_urls", "import_playlist"} =>
              \A b \in channels :
                 /\ b \in channels'
                 /\ \A r \in videos' :
                       (r.id \in res'.created /\ Owner(r.youtube_video_id) = b.youtube_channel_id)
                           => r.channel_id = b.id]_vars

\* An add-channel for a tracked id was rejected; its row is the only one.
C20_Witness ==
    /\ res.op = "create_channel"
    /\ res.outcome = "raised"
    /\ res.err = "already_exists"
    /\ Cardinality({r \in channels : r.youtube_channel_id = res.ch}) = 1

\* ------------------------------------------------------------------ C21
\* C21: a from-url for a video id that is stored returns, creates no row,
\* and changes exactly the stored row of that id: it keeps its primary key
\* and every other field, has status saved, saved_at the time of the call
\* and no discarded_at, whatever its status was; one row of that id exists.
C21_FromUrlExisting ==
    [][(res'.op = "from_url" /\ res'.list[1] \in StoredIds(videos)) =>
          /\ res'.outcome = "returned"
          /\ nextId' = nextId
          /\ Cardinality(RowsOf(videos', res'.list[1])) = 1
          /\ \E o \in RowsOf(videos, res'.list[1]) :
                videos' = (videos \ {o}) \cup
                    {[o EXCEPT !.status = "saved", !.saved_at = now,
                               !.discarded_at = NoTime]}]_vars

\* A from-url for a video that was stored and discarded.
C21_Witness ==
    /\ res.op = "from_url"
    /\ res.outcome = "returned"
    /\ \E o \in res.oldRows :
          /\ o.youtube_video_id = res.list[1]
          /\ o.status = "discarded" /\ o.discarded_at # NoTime
          /\ \E r \in videos :
                /\ r.id = o.id /\ r.status = "saved"
                /\ r.saved_at = now - 1 /\ r.discarded_at = NoTime
    /\ Cardinality(videos) = Cardinality(res.oldRows)

\* ------------------------------------------------------------------ C22
\* C22: a fetch of a handle page, of channel info, of a candidate list or
\* of a video's details makes at most three attempts; after an attempt
\* that met a transient failure it waits and then runs the next attempt,
\* unless that was the third attempt, after which a failure is raised; an attempt that
\* met a parse failure ends the call with that failure at once.
C22_BoundedRetry ==
    call.kind \in {"page", "channel_info", "videos", "video_detail"} =>
        LET n == Len(call.tries)
        IN /\ n <= 3
           /\ (n > 0 /\ call.tries[n] = "transient") =>
                 IF n < 3 THEN call.pc \in {"backoff", "running"}
                 ELSE call.pc = "done" /\ call.result # "ok"
           /\ (n > 0 /\ call.tries[n] = "parse") =>
                 call.pc = "done" /\ call.result = "ValueError"

\* ------------------------------------------------------------------ C23
\* C23: a resolution of a handle, custom or user URL whose page fetch ends
\* on a consent page ends with a ValueError that says the request was
\* blocked by cookie consent, and not with the text of the parse failure
\* "Could not extract channel ID from page".
C23_ConsentReported ==
    (call.kind = "page" /\ call.tries # <<>>
        /\ call.tries[Len(call.tries)] = "consent") =>
        /\ call.pc = "done"
        /\ call.result = "ValueError"
        /\ call.msg = "blocked by cookie consent"
        /\ call.msg # Message("page", "parse")

\* ------------------------------------------------------------------ C24
\* C24: after a refresh that returned, the channel's watermark is the
\* first item of the fetched list when the walk met a candidate (the list
\* is not empty and its first item is not the old watermark), whether that
\* item was created or was already stored; otherwise it is the old
\* watermark.
C24_TopmostIsWatermark ==
    (res.op = "refresh" /\ res.outcome = "returned") =>
        \A chan \in ChannelsOf(channels, res.ch) :
            IF res.list # <<>> /\ res.list[1] # res.oldWm
            THEN chan.last_video_id = res.list[1]
            ELSE chan.last_video_id = res.oldWm

\* ------------------------------------------------------------------ C25
\* C25: in a refresh, a candidate before the stop point whose id is stored
\* gets no new row, and the walk goes on after it: every later candidate
\* before the stop point is looked up, and is staged when it is not
\* stored; when the refresh returns, each staged id has a row it created.
C25_SkipAndContinue ==
    (res.op = "refresh" /\ res.ferr = NULL /\ res.err # "not_found") =>
        LET list == res.list
            hits == {i \in 1..Len(list) : list[i] = res.oldWm}
            stop == IF hits = {} THEN Len(list) + 1
                    ELSE CHOOSE i \in hits : \A j \in hits : i <= j
            made == {r \in videos : r.id \in res.created}
        IN \A i \in 1..(stop - 1) :
              list[i] \in res.oldStored =>
                 /\ list[i] \notin SeqToSet(res.staged)
                 /\ list[i] \notin {r.youtube_video_id : r \in made}
                 /\ \A j \in (i + 1)..(stop - 1) :
                       /\ list[j] \in SeqToSet(res.looked)
                       /\ list[j] \notin res.oldStored =>
                             /\ list[j] \in SeqToSet(res.staged)
                             /\ res.outcome = "returned" =>
                                   list[j] \in {r.youtube_video_id : r \in made}

\* A stored video tops the list and a video that is not stored follows
\* it: the second was created, the first still has its one row.
C25_Witness ==
    /\ res.op = "refresh"
    /\ res.outcome = "returned"
    /\ Len(res.list) >= 2
    /\ res.list[1] \in res.oldStored
    /\ res.list[1] # res.oldWm
    /\ res.list[2] \notin res.oldStored
    /\ res.list[2] # res.oldWm
    /\ Cardinality(RowsOf(videos, res.list[1])) = 1
    /\ \E r \in RowsOf(videos, res.list[2]) : r.id \in res.created /\ r.status = "inbox"

\* ------------------------------------------------------------------ C26
\* C26: after an add-channel, a refresh or a refresh-all that returned,
\* every Video row it created carries, in channel_youtube_id and
\* channel_name, the external id and the name of the channel it belongs to.
C26_IdentityEmbedded ==
    (res.op \in {"create_channel", "refresh", "refresh_all"} /\ res.outcome = "returned") =>
        \A r \in videos :
            (r.youtube_video_id \in SeqToSet(res.staged) /\ r.status = "inbox") =>
                \E chan \in channels :
                    /\ chan.id = r.channel_id
                    /\ r.channel_youtube_id = chan.youtube_channel_id
                    /\ r.channel_name = chan.name

\* ------------------------------------------------------------------ C27
\* C27: a refresh or a refresh-all stages at most one Video per video id,
\* and, no other request being under way, its commit is not rejected by
\* the unique constraint.
C27_OneStagedPerId ==
    res.op \in {"refresh", "refresh_all"} =>
        /\ \A i, j \in 1..Len(res.staged) : res.staged[i] = res.staged[j] => i = j
        /\ ~(res.outcome = "raised" /\ res.err = "integrity")

\* C28: a refresh or a refresh-all step never changes a stored Video: every
\* row in storage before the step is in storage after it with the same
\* status, timestamps and channel reference, also when its id reappears in the
\* fetched candidate list.
C28_StoredRowsUntouched ==
    [][res'.op \in {"refresh", "refresh_all"} => \A r \in videos : r \in videos']_vars

\* A returned refresh or refresh-all looked up a candidate that was stored as
\* a discarded video, and new rows were added in the same step.
C28_Witness ==
    /\ res.op \in {"refresh", "refresh_all"}
    /\ res.outcome = "returned"
    /\ res.added > 0
    /\ \E r \in videos : /\ r.status = "discarded"
                         /\ r.youtube_video_id \in res.oldStored
                         /\ r.youtube_video_id \in SeqToSet(res.looked)

\* C29: in every reachable state an inbox video has neither a saved nor a
\* discarded timestamp, a saved video has a saved timestamp, and a discarded
\* video has a discarded timestamp.
C29_StatusTimestamps ==
    \A r \in videos :
        /\ r.status \in {"inbox", "saved", "discarded"}
        /\ r.status = "inbox" => r.saved_at = NoTime /\ r.discarded_at = NoTime
        /\ r.status = "saved" => r.saved_at # NoTime
        /\ r.status = "discarded" => r.discarded_at # NoTime

\* Storage holds an inbox row and a discarded row, after a discard.
C29_Witness ==
    /\ res.op \in {"discard", "bulk_discard"}
    /\ res.outcome = "returned"
    /\ \E r \in videos : r.status = "discarded" /\ r.saved_at = NoTime
    /\ \E r \in videos : r.status = "inbox"

\* C30: under fairness, with every fetch ending in a result or a failure, a
\* refresh-all whose fetch tasks were created finishes: every task has been
\* through the semaphore and returned, all five permits are free again
\* whether the fetches succeeded or failed, the loop has handled each
\* channel's result exactly once (as refreshed or as an error), and the
\* commit was reached and the summary returned.
C30_RefreshAllFinishes ==
    (fleet.op = "refresh_all" /\ fleet.pc = "fetching")
        ~> (/\ fleet.pc = "done"
            /\ \A i \in 1..Len(fleet.task) : fleet.task[i] = "done"
            /\ fleet.permits = 5
            /\ res.op = "refresh_all"
            /\ res.outcome = "returned"
            /\ res.refreshed + Len(res.errors) = Cardinality(channels))

\* A refresh-all over more channels than the semaphore has permits has
\* finished, with a fetch that failed and a fetch that brought a new video.
C30_Witness ==
    /\ fleet.op = "refresh_all"
    /\ fleet.pc = "done"
    /\ Len(fleet.task) > 5
    /\ fleet.permits = 5
    /\ res.outcome = "returned"
    /\ Len(res.errors) > 0
    /\ res.found > 0

====
